---------------------------- MODULE Spec2Model ----------------------------
(***************************************************************************)
(* A model of coil: the lexer (src/src/lexer.rs), the parser               *)
(* (src/src/parser.rs) and the table store and query dispatcher            *)
(* (src/src/lib.rs).                                                       *)
(*                                                                         *)
(* Text is a sequence of one-character strings.  Option<T> is a sequence   *)
(* of length 0 (None) or 1 (Some).  A panic (unwrap on None/Err, todo!,    *)
(* index out of bounds) is the outcome "panic" of the operation.           *)
(***************************************************************************)
EXTENDS Integers, Sequences, FiniteSets, TLC

VARIABLES
    tables,     \* Database.tables: Vec<Table>
    last,       \* the last call made on the Database and what it returned
    src,        \* the text handed to Lexer::lex
    lexed       \* Option of the outcome of Lexer::lex on src

vars == <<tables, last, src, lexed>>

(***************************************************************************)
(* Bounds of the model.                                                    *)
(***************************************************************************)
MaxLen == 3

(***************************************************************************)
(* Characters.                                                             *)
(***************************************************************************)
UpperLetters ==
    <<"A","B","C","D","E","F","G","H","I","J","K","L","M",
      "N","O","P","Q","R","S","T","U","V","W","X","Y","Z">>

LowerLetters ==
    <<"a","b","c","d","e","f","g","h","i","j","k","l","m",
      "n","o","p","q","r","s","t","u","v","w","x","y","z">>

Digits == <<"0","1","2","3","4","5","6","7","8","9">>

Range(s) == {s[i] : i \in DOMAIN s}

IndexIn(s, c) == CHOOSE i \in DOMAIN s : s[i] = c

\* char::to_lowercase on the characters of the model
to_lowercase_char(c) ==
    IF c \in Range(UpperLetters) THEN LowerLetters[IndexIn(UpperLetters, c)] ELSE c

\* String::to_lowercase
to_lowercase(s) == [i \in DOMAIN s |-> to_lowercase_char(s[i])]

is_numeric(c) == c \in Range(Digits)

is_alphanumeric(c) ==
    c \in Range(Digits) \cup Range(UpperLetters) \cup Range(LowerLetters)

HexDigits == Digits \o <<"a","b","c","d","e","f">>

HexValue(c) == IndexIn(HexDigits, c) - 1

Contains(s, c) == \E i \in DOMAIN s : s[i] = c

FirstIndex(s, c) == CHOOSE i \in DOMAIN s : s[i] = c /\ \A j \in 1..(i-1) : s[j] # c

Tail_(s, i) == SubSeq(s, i, Len(s))

RECURSIVE RadixValue(_, _)
\* the value of a digit string in base 10 or 16
RadixValue(s, radix) ==
    IF s = <<>> THEN 0
    ELSE RadixValue(SubSeq(s, 1, Len(s) - 1), radix) * radix + HexValue(s[Len(s)])

AllIn(s, set) == \A i \in DOMAIN s : s[i] \in set

(***************************************************************************)
(* Tokens (lexer.rs, enum Token).  The payload of Integer is num; of       *)
(* Float, num * 10^exp; of String and Identifier, text.                    *)
(***************************************************************************)
Token(type) == [type |-> type, text |-> <<>>, num |-> 0, exp |-> 0]

TokenInteger(n) == [type |-> "Integer", text |-> <<>>, num |-> n, exp |-> 0]

TokenFloat(m, e) == [type |-> "Float", text |-> <<>>, num |-> m, exp |-> e]

TokenString(s) == [type |-> "String", text |-> s, num |-> 0, exp |-> 0]

TokenIdentifier(s) == [type |-> "Identifier", text |-> s, num |-> 0, exp |-> 0]

(***************************************************************************)
(* Lexer.  The cursor is the index i of the next character of src that     *)
(* Peekable::next would return; self.cur is src[i-1].                      *)
(***************************************************************************)

\* the closure is_valid_number_char of Lexer::parse_number
is_valid_number_char(c) ==
    \/ is_numeric(c)
    \/ c \in {"-", ".", "x", "a", "b", "c", "d", "e", "f"}

\* the closures the lexer passes to push_until as stop_condition, by the
\* function that passes them
stop_condition(caller, c) ==
    CASE caller = "parse_string" -> c = "\""
      [] caller = "parse_number" -> ~is_valid_number_char(to_lowercase_char(c))
      [] caller = "parse_keyword_or_identifier" -> ~is_alphanumeric(c)

\* Lexer::push_until: the index at which scanning from i stops, i.e. the first
\* index at or after i that is past the end or satisfies the stop condition.
push_until(text, i, caller) ==
    CHOOSE k \in i..(Len(text) + 1) :
        /\ k = Len(text) + 1 \/ stop_condition(caller, text[k])
        /\ \A j \in i..(k - 1) : ~stop_condition(caller, text[j])

RECURSIVE NormalizeFloat(_, _)
\* a decimal m * 10^e with no trailing zero in m
NormalizeFloat(m, e) ==
    IF m = 0 THEN <<0, 0>>
    ELSE IF m % 10 = 0 THEN NormalizeFloat(m \div 10, e + 1)
    ELSE <<m, e>>

\* str::parse::<f64> on a string that starts with a digit, contains '.' and is
\* made of the characters of is_valid_number_char: Some(<<m, e>>) or None.
parse_f64(s) ==
    LET dot  == FirstIndex(s, ".")
        int  == SubSeq(s, 1, dot - 1)
        rest == Tail_(s, dot + 1)
        hasE == Contains(rest, "e")
        epos == IF hasE THEN FirstIndex(rest, "e") ELSE Len(rest) + 1
        frac == SubSeq(rest, 1, epos - 1)
        ex   == Tail_(rest, epos + 1)
        neg  == ex # <<>> /\ ex[1] = "-"
        exd  == IF neg THEN Tail_(ex, 2) ELSE ex
        ok   == /\ AllIn(int, Range(Digits))
                /\ AllIn(frac, Range(Digits))
                /\ hasE => (exd # <<>> /\ AllIn(exd, Range(Digits)))
        ev   == IF hasE THEN (IF neg THEN 0 - RadixValue(exd, 10) ELSE RadixValue(exd, 10))
                ELSE 0
    IN  IF ok THEN <<NormalizeFloat(RadixValue(int \o frac, 10), ev - Len(frac))>>
        ELSE <<>>

RECURSIVE trim_start_matches_0x(_)
\* str::trim_start_matches("0x"): every leading repetition of "0x" is removed
trim_start_matches_0x(s) ==
    IF Len(s) >= 2 /\ s[1] = "0" /\ s[2] = "x"
    THEN trim_start_matches_0x(Tail_(s, 3))
    ELSE s

\* i64::from_str_radix(s, 16): Some(n) or None
from_str_radix_16(s) ==
    LET neg == s # <<>> /\ s[1] = "-"
        ds  == IF neg THEN Tail_(s, 2) ELSE s
    IN  IF ds # <<>> /\ AllIn(ds, Range(HexDigits))
        THEN <<IF neg THEN 0 - RadixValue(ds, 16) ELSE RadixValue(ds, 16)>>
        ELSE <<>>

\* str::parse::<i64> on a string that starts with a digit: Some(n) or None.
\* (Literals of the model are far shorter than the 19 digits that overflow.)
parse_i64(s) ==
    IF AllIn(s, Range(Digits)) THEN <<RadixValue(s, 10)>> ELSE <<>>

\* Lexer::parse_number with self.cur = text[i-1]: the token (or the panic of an
\* unwrap on a failed parse) and the cursor after it.
parse_number(text, i) ==
    LET k      == push_until(text, i, "parse_number")
        number == to_lowercase(SubSeq(text, i - 1, k - 1))
        f      == parse_f64(number)
        h      == from_str_radix_16(trim_start_matches_0x(number))
        d      == parse_i64(number)
    IN  IF Contains(number, ".")
        THEN [panic |-> f = <<>>, next |-> k,
              token |-> IF f = <<>> THEN Token("None") ELSE TokenFloat(f[1][1], f[1][2])]
        ELSE IF Contains(number, "x")
        THEN [panic |-> h = <<>>, next |-> k,
              token |-> IF h = <<>> THEN Token("None") ELSE TokenInteger(h[1])]
        ELSE [panic |-> d = <<>>, next |-> k,
              token |-> IF d = <<>> THEN Token("None") ELSE TokenInteger(d[1])]

\* the keyword table of Lexer::parse_keyword_or_identifier, on the lower-cased word
KeywordType(word) ==
    CASE word = <<"g","e","t">> -> "Get"
      [] word = <<"p","u","t">> -> "Put"
      [] word = <<"u","p","d","a","t","e">> -> "Update"
      [] word = <<"c","r","e","a","t","e">> -> "Create"
      [] word = <<"d","e","l","e","t","e">> -> "Delete"
      [] word = <<"i","n">> -> "In"
      [] word = <<"f","r","o","m">> -> "From"
      [] word = <<"w","h","e","r","e">> -> "Where"
      [] word = <<"t","a","b","l","e">> -> "Table"
      [] word = <<"d","a","t","a","b","a","s","e">> -> "Database"
      [] word = <<"a","n","d">> -> "And"
      [] word = <<"o","r">> -> "Or"
      [] word = <<"x","o","r">> -> "Xor"
      [] word = <<"n","u","m","b","e","r">> -> "NumberType"
      [] word = <<"t","e","x","t">> -> "TextType"
      [] word = <<"n","o","n","e">> -> "None"
      [] OTHER -> "Identifier"

\* Lexer::parse_keyword_or_identifier with self.cur = text[i-1]
parse_keyword_or_identifier_case_sensitive(text, i) ==
    LET k      == push_until(text, i, "parse_keyword_or_identifier")
        string == SubSeq(text, i - 1, k - 1)
        type   == KeywordType(string)
    IN  [panic |-> FALSE, next |-> k,
         token |-> IF type = "Identifier" THEN TokenIdentifier(string) ELSE Token(type)]

parse_keyword_or_identifier(text, i) ==
    LET k      == push_until(text, i, "parse_keyword_or_identifier")
        string == SubSeq(text, i - 1, k - 1)
        type   == KeywordType(to_lowercase(string))
    IN  [panic |-> FALSE, next |-> k,
         token |-> IF type = "Identifier" THEN TokenIdentifier(string) ELSE Token(type)]

\* The '"' arm of Lexer::lex with the quote at text[i-1]: lexer.next() makes the
\* character after the quote current, and Lexer::parse_string starts its buffer
\* with it, scans to the next '"' and consumes that.  self.cur.unwrap() panics
\* when the quote ends the text, and consume's next().unwrap() when no closing
\* quote follows.
parse_string(text, i) ==
    LET k == push_until(text, i + 1, "parse_string")
    IN  IF i > Len(text) THEN [panic |-> TRUE, next |-> i, token |-> Token("None")]
        ELSE IF k > Len(text) THEN [panic |-> TRUE, next |-> k, token |-> Token("None")]
        ELSE [panic |-> FALSE, next |-> k + 1, token |-> TokenString(SubSeq(text, i, k - 1))]

\* Lexer::peek at cursor i: Option<char>
peek_char(text, i) == IF i <= Len(text) THEN <<text[i]>> ELSE <<>>

LexOk(tokens) == [status |-> "ok", tokens |-> tokens]

LexPanic(tokens) == [status |-> "panic", tokens |-> tokens]

RECURSIVE lex_loop(_, _, _)
\* the while loop of Lexer::lex, from cursor i with the tokens pushed so far
lex_loop(text, i, tokens) ==
    IF i > Len(text) THEN LexOk(tokens)
    ELSE
    LET c == text[i]
        one(type) == lex_loop(text, i + 1, Append(tokens, Token(type)))
        sub(r) == IF r.panic THEN LexPanic(tokens)
                  ELSE lex_loop(text, r.next, Append(tokens, r.token))
    IN  CASE c \in {" ", "\r", "\n"} -> lex_loop(text, i + 1, tokens)
          [] c = "*" -> one("Star")
          [] c = "," -> one("Comma")
          [] c = "." -> one("Period")
          [] c = "[" -> one("LeftBracket")
          [] c = "]" -> one("RightBracket")
          [] c = ":" -> one("Colon")
          [] c = "\"" -> sub(parse_string(text, i + 1))
          [] c = "<" -> IF peek_char(text, i + 1) = <<"=">>
                        THEN one("LessThanOrEqual") ELSE one("LessThan")
          [] c = ">" -> IF peek_char(text, i + 1) = <<"=">>
                        THEN one("GreaterThanOrEqual") ELSE one("GreaterThan")
          [] c = "=" -> one("Equal")
          [] c = "!" -> IF peek_char(text, i + 1) = <<>> THEN LexPanic(tokens)
                        ELSE IF peek_char(text, i + 1) = <<"=">> THEN one("NotEqual")
                        ELSE lex_loop(text, i + 1, tokens)
          [] is_numeric(c) -> sub(parse_number(text, i + 1))
          [] OTHER -> sub(parse_keyword_or_identifier(text, i + 1))

\* Lexer::lex
lex(text) == lex_loop(text, 1, <<>>)

(***************************************************************************)
(* Values, columns, rows (lib.rs).  A FieldValue carries its kind and the  *)
(* payload of that kind: text for Text, num for Integer, num * 10^exp for  *)
(* Float.                                                                  *)
(***************************************************************************)
FieldValueNone == [kind |-> "None", text |-> <<>>, num |-> 0, exp |-> 0]

FieldValueText(s) == [kind |-> "Text", text |-> s, num |-> 0, exp |-> 0]

FieldValueInteger(n) == [kind |-> "Integer", text |-> <<>>, num |-> n, exp |-> 0]

FieldValueFloat(m, e) == [kind |-> "Float", text |-> <<>>, num |-> m, exp |-> e]

\* FieldType::check_field_value_type
check_field_value_type(field_type, field_value) ==
    CASE field_value.kind = "None" -> TRUE
      [] field_value.kind = "Text" -> field_type = "Text"
      [] field_value.kind \in {"Integer", "Float"} -> field_type = "Number"

\* Column::new
ColumnNew(name, field_type) == [name |-> name, rows |-> <<>>, field_type |-> field_type]

\* Column::push without its call of check_field_value_type
push_unchecked(column, value) ==
    [column |-> [column EXCEPT !.rows = Append(@, value)], result |-> "Ok"]

\* Column::push: the column afterwards and the Result
push(column, value) ==
    IF check_field_value_type(column.field_type, value)
    THEN [column |-> [column EXCEPT !.rows = Append(@, value)], result |-> "Ok"]
    ELSE [column |-> column, result |-> "MismatchedTypes"]

\* Table::new
TableNew(name, columns) == [name |-> name, columns |-> columns]

\* Table::new_row: the table afterwards and the Option<CoilError> returned.
\* The Result of each Column::push is dropped (let _ =).
new_row_filling_short_rows(table, values) ==
    IF Len(values) > Len(table.columns)
    THEN [table |-> table, result |-> <<"TooManyValues">>]
    ELSE [table |-> [table EXCEPT !.columns =
                        [i \in DOMAIN table.columns |->
                            IF i <= Len(values) THEN push(table.columns[i], values[i]).column
                            ELSE table.columns[i]]],
          result |-> IF Len(values) < Len(table.columns)
                     THEN <<"NotEnoughValues">> ELSE <<>>]

new_row(table, values) ==
    IF Len(values) > Len(table.columns)
    THEN [table |-> table, result |-> <<"TooManyValues">>]
    ELSE IF Len(values) < Len(table.columns)
    THEN [table |-> table, result |-> <<"NotEnoughValues">>]
    ELSE [table |-> [table EXCEPT !.columns =
                        [i \in DOMAIN table.columns |-> push(table.columns[i], values[i]).column]],
          result |-> <<>>]

\* Row::from_columns: the HashMap from column name to the value at index (from
\* 1 here); inserting in column order, a later column of the same name replaces
\* an earlier one.  Indexing a column shorter than index panics.
from_columns_panics(columns, index) ==
    \E j \in DOMAIN columns : index > Len(columns[j].rows)

from_columns(columns, index) ==
    LET names == {columns[j].name : j \in DOMAIN columns}
        lastOf(n) == CHOOSE j \in DOMAIN columns :
                        /\ columns[j].name = n
                        /\ \A k \in DOMAIN columns : columns[k].name = n => k <= j
    IN  [n \in names |-> columns[lastOf(n)].rows[index]]

\* Row::get: Option<&FieldValue>
RowGet(row, field) == IF field \in DOMAIN row THEN <<row[field]>> ELSE <<>>

(***************************************************************************)
(* Expressions (parser.rs).  An ExpressionType is a record like a Token;   *)
(* an Expression has its type and two Option<Box<Expression>> operands.    *)
(***************************************************************************)
Expression(expression_type, l_operand, r_operand) ==
    [expression_type |-> expression_type, l_operand |-> l_operand, r_operand |-> r_operand]

Literal(expression_type) == Expression(expression_type, <<>>, <<>>)

\* FieldValue::from_expression_type
from_expression_type(expression_type) ==
    CASE expression_type.type = "None" -> FieldValueNone
      [] expression_type.type = "String" -> FieldValueText(expression_type.text)
      [] expression_type.type = "Integer" -> FieldValueInteger(expression_type.num)
      [] expression_type.type = "Float" ->
            FieldValueFloat(expression_type.num, expression_type.exp)
      [] OTHER -> FieldValueNone

\* the characters of the model in the order of their code points
CodePointOrder ==
    <<"\n", "\r", " ", "!", "\"", "*", ",", "-", ".">> \o Digits
    \o <<":", "<", "=", ">", "@">> \o UpperLetters \o <<"[", "]">> \o LowerLetters

CodePoint(c) == IndexIn(CodePointOrder, c)

\* Ord for String: -1, 0 or 1
StringCmp(a, b) ==
    LET common == {i \in 1..Len(a) : i <= Len(b)}
        diff   == {i \in common : a[i] # b[i]}
        first  == CHOOSE i \in diff : \A j \in diff : i <= j
    IN  IF diff # {}
        THEN (IF CodePoint(a[first]) < CodePoint(b[first]) THEN 0 - 1 ELSE 1)
        ELSE IF Len(a) < Len(b) THEN 0 - 1
        ELSE IF Len(a) > Len(b) THEN 1
        ELSE 0

IntCmp(a, b) == IF a < b THEN 0 - 1 ELSE IF a > b THEN 1 ELSE 0

RECURSIVE Pow10(_)
Pow10(n) == IF n <= 0 THEN 1 ELSE 10 * Pow10(n - 1)

\* the order of two decimals m * 10^e
FloatCmp(m1, e1, m2, e2) ==
    LET e == IF e1 < e2 THEN e1 ELSE e2
    IN  IntCmp(m1 * Pow10(e1 - e), m2 * Pow10(e2 - e))

\* the position of a variant in enum FieldValue
Discriminant(v) ==
    CASE v.kind = "None" -> 0
      [] v.kind = "Text" -> 1
      [] v.kind = "Integer" -> 2
      [] v.kind = "Float" -> 3

\* #[derive(PartialOrd)] on FieldValue: variants in declaration order, then
\* the payloads
FieldValueCmp(a, b) ==
    IF Discriminant(a) # Discriminant(b)
    THEN IntCmp(Discriminant(a), Discriminant(b))
    ELSE CASE a.kind = "None" -> 0
           [] a.kind = "Text" -> StringCmp(a.text, b.text)
           [] a.kind = "Integer" -> IntCmp(a.num, b.num)
           [] a.kind = "Float" -> FloatCmp(a.num, a.exp, b.num, b.exp)

\* #[derive(PartialEq)] on FieldValue
FieldValueEq(a, b) == a.kind = b.kind /\ FieldValueCmp(a, b) = 0

\* Row::check_condition: the bool returned, or the panic of an unwrap on None
\* (a condition without two operands, an identifier that is no field of the row)
check_condition(row, condition) ==
    IF condition.l_operand = <<>> \/ condition.r_operand = <<>>
    THEN [panic |-> TRUE, value |-> FALSE]
    ELSE
    LET l_operand == condition.l_operand[1]
        r_operand == condition.r_operand[1]
        resolve(operand) ==
            IF operand.expression_type.type = "Identifier"
            THEN RowGet(row, operand.expression_type.text)
            ELSE <<from_expression_type(operand.expression_type)>>
        l == resolve(l_operand)
        r == resolve(r_operand)
        type == condition.expression_type.type
    IN  IF l = <<>> \/ r = <<>> THEN [panic |-> TRUE, value |-> FALSE]
        ELSE [panic |-> FALSE,
              value |->
                CASE type = "Equal" -> FieldValueEq(l[1], r[1])
                  [] type = "NotEqual" -> ~FieldValueEq(l[1], r[1])
                  [] type = "LessThan" -> FieldValueCmp(l[1], r[1]) < 0
                  [] type = "LessThanOrEqual" -> FieldValueCmp(l[1], r[1]) <= 0
                  [] type = "GreaterThan" -> FieldValueCmp(l[1], r[1]) > 0
                  [] type = "GreaterThanOrEqual" -> FieldValueCmp(l[1], r[1]) >= 0
                  [] OTHER -> FALSE]

\* Table::get_rows: the Option<Vec<Row>> returned (always Some), or a panic:
\* self.columns[0] on a table without columns, Row::from_columns on a column
\* shorter than the first, or Row::check_condition.
get_rows(table, condition) ==
    IF table.columns = <<>> THEN [status |-> "panic", rows |-> <<>>]
    ELSE
    LET n == Len(table.columns[1].rows)
        row(i) == from_columns(table.columns, i)
        test(i) == IF condition = <<>> THEN [panic |-> FALSE, value |-> TRUE]
                   ELSE check_condition(row(i), condition[1])
        keep(i) == test(i).value
        kept == SelectSeq([i \in 1..n |-> i], keep)
    IN  IF \E i \in 1..n : from_columns_panics(table.columns, i) \/ test(i).panic
        THEN [status |-> "panic", rows |-> <<>>]
        ELSE [status |-> "ok", rows |-> <<[k \in 1..Len(kept) |-> row(kept[k])]>>]

(***************************************************************************)
(* Parser (parser.rs).  The reversed token stack with pop is the token     *)
(* sequence with a cursor: pos is the index of the token Parser::next      *)
(* would return.  A parse routine returns its Option and the cursor.       *)
(***************************************************************************)

\* Parser::peek: Option<&Token>
peek(tokens, pos) == IF pos <= Len(tokens) THEN <<tokens[pos]>> ELSE <<>>

\* Parser::consume / Parser::check on the types of expected (the expected
\* tokens carry no payload): whether the current token is one of them
check(tokens, pos, expected) ==
    pos <= Len(tokens) /\ tokens[pos] \in {Token(type) : type \in expected}

\* ExpressionType of a literal token
ExpressionTypeOf(token) == token

\* Parser::parse_primary: a literal or identifier token becomes a leaf; the
\* parenthesis branch sits behind is_primary_type and is never entered.
is_primary_type(token) ==
    token.type \in {"None", "Integer", "Float", "String", "Identifier"}

parse_primary(tokens, pos) ==
    IF pos <= Len(tokens) /\ is_primary_type(tokens[pos])
    THEN [expr |-> <<Literal(ExpressionTypeOf(tokens[pos]))>>, pos |-> pos + 1]
    ELSE [expr |-> <<>>, pos |-> pos]

\* the shape shared by the binary levels: Some(Box::new(Expression{..}))
Fold(type, expression, r_expression) ==
    <<Expression(Token(type), expression, r_expression)>>

\* The levels of the expression grammar, lowest precedence first, as the chain
\* of calls parse_or -> parse_and -> parse_equality -> parse_comparison ->
\* parse_term -> parse_factor -> parse_unary -> parse_primary.
Levels == <<"or", "and", "equality", "comparison", "term", "factor", "unary">>

\* LevelOperators with the operators of parse_or and parse_and exchanged, so
\* that And binds looser than Or
LevelOperators_and_loosest(level) ==
    CASE level = "or" -> [And |-> "And"]
      [] level = "and" -> [Or |-> "Or"]
      [] level = "equality" -> [Equal |-> "Equal", NotEqual |-> "NotEqual"]
      [] level = "comparison" ->
            [GreaterThan |-> "GreaterThan", GreaterThanOrEqual |-> "GreaterThanOrEqual",
             LessThan |-> "LessThan", LessThanOrEqual |-> "LessThanOrEqual"]
      [] level = "term" -> [Add |-> "Add", Subtract |-> "Subtract"]
      [] level = "factor" ->
            [Star |-> "Multiply", Divide |-> "Divide",
             Power |-> "Power", Modulus |-> "Modulus"]
      [] level = "unary" -> [Not |-> "Not", Add |-> "Positive", Subtract |-> "Negate"]

\* The tokens a level's while loop consumes, each with the ExpressionType its
\* match on peek_back gives the node.
LevelOperators(level) ==
    CASE level = "or" -> [Or |-> "Or"]
      [] level = "and" -> [And |-> "And"]
      [] level = "equality" -> [Equal |-> "Equal", NotEqual |-> "NotEqual"]
      [] level = "comparison" ->
            [GreaterThan |-> "GreaterThan", GreaterThanOrEqual |-> "GreaterThanOrEqual",
             LessThan |-> "LessThan", LessThanOrEqual |-> "LessThanOrEqual"]
      [] level = "term" -> [Add |-> "Add", Subtract |-> "Subtract"]
      [] level = "factor" ->
            [Star |-> "Multiply", Divide |-> "Divide",
             Power |-> "Power", Modulus |-> "Modulus"]
      [] level = "unary" -> [Not |-> "Not", Add |-> "Positive", Subtract |-> "Negate"]

RECURSIVE parse_level(_, _, _)
RECURSIVE parse_level_loop(_, _, _, _)
\* The body shared by parse_or ... parse_unary at level Levels[n]: parse the
\* next level once, then fold while an operator of this level is consumed.
parse_level(n, tokens, pos) ==
    IF n > Len(Levels) THEN parse_primary(tokens, pos)
    ELSE LET first == parse_level(n + 1, tokens, pos)
         IN  parse_level_loop(n, tokens, first.pos, first.expr)

parse_level_loop(n, tokens, pos, expression) ==
    LET operators == LevelOperators(Levels[n])
    IN  IF check(tokens, pos, DOMAIN operators)
        THEN LET r == parse_level(n + 1, tokens, pos + 1)
             IN  parse_level_loop(n, tokens, r.pos,
                                  Fold(operators[tokens[pos].type], expression, r.expr))
        ELSE [expr |-> expression, pos |-> pos]

LevelOf(name) == CHOOSE n \in DOMAIN Levels : Levels[n] = name

\* Parser::parse_or
parse_or(tokens, pos) == parse_level(LevelOf("or"), tokens, pos)

\* Query::new
QueryNew(operation) ==
    [operation |-> operation, database |-> <<>>, table |-> <<>>,
     values |-> <<>>, columns |-> <<>>, condition |-> <<>>]

\* what a parse_*_query routine returns: Option<Query>, or the panic of a todo!
ParsedSome(query) == [status |-> "Some", query |-> query]

ParsedNone == [status |-> "None", query |-> QueryNew("Get")]

ParsedPanic == [status |-> "panic", query |-> QueryNew("Get")]

RECURSIVE parse_columns_loop(_, _, _)
\* the loop of Parser::parse_create_query, entered after '[': Option<Vec<Column>>
parse_columns_loop(tokens, pos, columns) ==
    IF /\ pos + 2 <= Len(tokens)
       /\ tokens[pos].type = "Identifier"
       /\ tokens[pos + 1] = Token("Colon")
       /\ tokens[pos + 2].type \in {"NumberType", "TextType"}
    THEN LET field_type == IF tokens[pos + 2].type = "NumberType" THEN "Number" ELSE "Text"
             pushed == Append(columns, ColumnNew(tokens[pos].text, field_type))
         IN  IF check(tokens, pos + 3, {"Comma"})
             THEN parse_columns_loop(tokens, pos + 4, pushed)
             ELSE IF check(tokens, pos + 3, {"RightBracket"}) THEN <<pushed>>
             ELSE <<>>
    ELSE <<>>

\* Parser::parse_create_query, entered after the Create token at pos - 1
parse_create_query(tokens, pos) ==
    IF pos + 1 > Len(tokens) THEN ParsedNone
    ELSE
    LET keyword == tokens[pos]
        identifier == tokens[pos + 1]
        columns == parse_columns_loop(tokens, pos + 3, <<>>)
    IN  IF identifier.type # "Identifier" THEN ParsedNone
        ELSE IF keyword = Token("Database")
        THEN ParsedSome([QueryNew("Create") EXCEPT !.database = <<identifier.text>>])
        ELSE IF keyword # Token("Table") THEN ParsedNone
        ELSE IF ~check(tokens, pos + 2, {"LeftBracket"}) THEN ParsedNone
        ELSE IF columns = <<>> THEN ParsedNone
        ELSE ParsedSome([QueryNew("Create") EXCEPT !.table = <<identifier.text>>,
                                                   !.columns = columns])

\* Parser::parse_get_query, entered after the Get token
parse_get_query(tokens, pos) ==
    IF ~check(tokens, pos, {"Star"}) THEN ParsedNone
    ELSE IF ~check(tokens, pos + 1, {"From"}) THEN ParsedNone
    ELSE IF pos + 2 > Len(tokens) \/ tokens[pos + 2].type # "Identifier" THEN ParsedNone
    ELSE LET query == [QueryNew("Get") EXCEPT !.table = <<tokens[pos + 2].text>>]
         IN  IF check(tokens, pos + 3, {"Where"})
             THEN ParsedSome([query EXCEPT !.condition = parse_or(tokens, pos + 4).expr])
             ELSE ParsedSome(query)

RECURSIVE parse_values_loop(_, _, _)
\* the loop of Parser::parse_put_query, entered after '[': Option of the values
\* and the cursor after ']'
parse_values_loop(tokens, pos, values) ==
    IF pos > Len(tokens) THEN <<>>
    ELSE LET token == tokens[pos]
         IN  CASE token.type = "Comma" -> parse_values_loop(tokens, pos + 1, values)
               [] token.type = "Float" ->
                    parse_values_loop(tokens, pos + 1,
                                      Append(values, FieldValueFloat(token.num, token.exp)))
               [] token.type = "Integer" ->
                    parse_values_loop(tokens, pos + 1,
                                      Append(values, FieldValueInteger(token.num)))
               [] token.type = "String" ->
                    parse_values_loop(tokens, pos + 1,
                                      Append(values, FieldValueText(token.text)))
               [] token.type = "None" ->
                    parse_values_loop(tokens, pos + 1, Append(values, FieldValueNone))
               [] token.type = "RightBracket" -> <<[values |-> values, pos |-> pos + 1]>>
               [] OTHER -> <<>>

\* Parser::parse_put_query, entered after the Put token
parse_put_query(tokens, pos) ==
    IF ~check(tokens, pos, {"LeftBracket"}) THEN ParsedNone
    ELSE LET loop == parse_values_loop(tokens, pos + 1, <<>>)
         IN  IF loop = <<>> THEN ParsedNone
             ELSE IF ~check(tokens, loop[1].pos, {"In"}) THEN ParsedNone
             ELSE IF loop[1].pos + 1 > Len(tokens) THEN ParsedNone
             ELSE LET name == tokens[loop[1].pos + 1]
                  IN  ParsedSome([QueryNew("Put") EXCEPT
                        !.values = <<loop[1].values>>,
                        !.table = IF name.type = "Identifier" THEN <<name.text>> ELSE <<>>])

\* Parser::parse_update_query: todo!
parse_update_query(tokens, pos) == ParsedPanic

\* Parser::parse_delete_query: None on a malformed head, else todo!
parse_delete_query(tokens, pos) ==
    IF pos + 1 > Len(tokens) THEN ParsedNone
    ELSE IF tokens[pos + 1].type # "Identifier" THEN ParsedNone
    ELSE IF tokens[pos].type \notin {"Database", "Table"} THEN ParsedNone
    ELSE ParsedPanic

\* Parser::parse_query
parse_query(tokens) ==
    IF tokens = <<>> THEN ParsedNone
    ELSE CASE tokens[1] = Token("Get") -> parse_get_query(tokens, 2)
           [] tokens[1] = Token("Put") -> parse_put_query(tokens, 2)
           [] tokens[1] = Token("Update") -> parse_update_query(tokens, 2)
           [] tokens[1] = Token("Create") -> parse_create_query(tokens, 2)
           [] tokens[1] = Token("Delete") -> parse_delete_query(tokens, 2)
           [] OTHER -> ParsedNone

\* Parser::parse: parse_query().unwrap()
parse(tokens) ==
    LET parsed == parse_query(tokens)
    IN  IF parsed.status = "Some" THEN [status |-> "ok", query |-> parsed.query]
        ELSE [status |-> "panic", query |-> parsed.query]

(***************************************************************************)
(* Database (lib.rs).                                                      *)
(***************************************************************************)

\* Database::get_table / get_table_mut: Option of the index of the first table
\* of that name
get_table(tbls, name) ==
    IF \E i \in DOMAIN tbls : tbls[i].name = name
    THEN <<CHOOSE i \in DOMAIN tbls :
                /\ tbls[i].name = name
                /\ \A j \in 1..(i - 1) : tbls[j].name # name>>
    ELSE <<>>

\* Database::new_table: the tables afterwards and the Result
new_table(tbls, name, columns) ==
    IF \E i \in DOMAIN tbls : tbls[i].name = name
    THEN [tables |-> tbls, result |-> "TableAlreadyExists"]
    ELSE [tables |-> Append(tbls, TableNew(name, columns)), result |-> "Ok"]

\* QueryResult: operation, table (Option of the index of the table referred
\* to) and rows (Option<Vec<Row>>)
QueryResult(operation, table, rows) ==
    [operation |-> operation, table |-> table, rows |-> rows]

RanSome(tbls, result) == [status |-> "Some", tables |-> tbls, result |-> <<result>>]

RanNone(tbls) == [status |-> "None", tables |-> tbls, result |-> <<>>]

RanPanic(tbls) == [status |-> "panic", tables |-> tbls, result |-> <<>>]

\* Database::run_query: the tables afterwards and the Option<QueryResult>
\* returned, or a panic (todo!, unwrap)
run_query(tbls, query) ==
    LET found == IF query.table = <<>> THEN <<>> ELSE get_table(tbls, query.table[1])
    IN  CASE query.operation = "Get" ->
                IF found = <<>> THEN RanNone(tbls)
                ELSE LET got == get_rows(tbls[found[1]], query.condition)
                     IN  IF got.status = "panic" THEN RanPanic(tbls)
                         ELSE RanSome(tbls, QueryResult("Get", found, got.rows))
          [] query.operation = "Put" ->
                IF found = <<>> \/ query.values = <<>> THEN RanNone(tbls)
                ELSE RanSome([tbls EXCEPT ![found[1]] = new_row(@, query.values[1]).table],
                             QueryResult("Put", <<>>, <<>>))
          [] query.operation = "Update" -> RanPanic(tbls)
          [] query.operation = "Create" ->
                IF query.table = <<>> THEN RanPanic(tbls)
                ELSE IF query.columns = <<>> THEN RanNone(tbls)
                ELSE RanPanic(new_table(tbls, query.table[1], query.columns[1]).tables)
          [] query.operation = "Delete" -> RanPanic(tbls)

(***************************************************************************)
(* The Database under its callers: Database::new_table, Table::new_row,    *)
(* Table::get_rows and Database::run_query called directly, and the body   *)
(* of the loop of run (lib.rs), which lexes, parses and runs a line.       *)
(* A panic ends the run: nothing is called after it.                       *)
(***************************************************************************)
MaxCells == 2

Customers == <<"c","u","s","t","o","m","e","r","s">>

Orders == <<"o","r","d","e","r","s">>

TableNames == {Customers, Orders}

NameColumn == <<"N","a","m","e">>

IdColumn == <<"I","D">>

James == <<"j","a","m","e","s">>

\* the column lists tables are created with
Layouts ==
    { <<>>,
      <<ColumnNew(IdColumn, "Number")>>,
      <<ColumnNew(NameColumn, "Text"), ColumnNew(IdColumn, "Number")>>,
      <<ColumnNew(IdColumn, "Number"), ColumnNew(IdColumn, "Number")>> }

MaxColumns == CHOOSE n \in {Len(l) : l \in Layouts} : \A l \in Layouts : Len(l) <= n

Values == {FieldValueNone, FieldValueText(James), FieldValueInteger(1)}

\* the value lists rows are inserted from: every list of at most MaxColumns
\* values, and lists of one value too many
ValueLists ==
    UNION {[1..k -> Values] : k \in 0..MaxColumns}
    \cup {[i \in 1..(MaxColumns + 1) |-> v] : v \in Values}

\* the value lists of Put queries
PutLists ==
    [1..MaxColumns -> Values]
    \cup {<<>>, <<FieldValueInteger(1)>>,
          <<FieldValueInteger(1), FieldValueInteger(1), FieldValueInteger(1)>>}

Identifier(name) == Literal(TokenIdentifier(name))

Binary(type, l, r) == Expression(Token(type), <<l>>, <<r>>)

IdEqualsOne == Binary("Equal", Identifier(IdColumn), Literal(TokenInteger(1)))

NameEqualsJames == Binary("Equal", Identifier(NameColumn), Literal(TokenString(James)))

Conditions ==
    { IdEqualsOne,
      NameEqualsJames,
      Binary("GreaterThanOrEqual", Identifier(IdColumn), Literal(TokenInteger(1))),
      Binary("LessThan", Identifier(IdColumn), Literal(TokenString(James))),
      Binary("Or", IdEqualsOne, NameEqualsJames),
      Binary("And", Binary("Or", IdEqualsOne, NameEqualsJames),
                    Binary("NotEqual", Identifier(IdColumn), Literal(TokenInteger(3)))),
      Binary("Equal", Identifier(Orders), Literal(TokenInteger(1))),
      Literal(TokenInteger(1)) }

OptionalConditions == {<<>>} \cup {<<c>> : c \in Conditions}

QueryConditions == {<<>>, <<IdEqualsOne>>, <<Binary("Or", IdEqualsOne, NameEqualsJames)>>}

Queries ==
    {[QueryNew("Get") EXCEPT !.table = <<n>>, !.condition = c] :
        n \in TableNames, c \in QueryConditions}
    \cup {[QueryNew("Put") EXCEPT !.table = <<n>>, !.values = <<v>>] :
            n \in TableNames, v \in PutLists}
    \cup {[QueryNew("Create") EXCEPT !.table = <<n>>, !.columns = <<c>>] :
            n \in TableNames, c \in Layouts}
    \cup {[QueryNew("Create") EXCEPT !.database = <<Orders>>],
          QueryNew("Get"), QueryNew("Put"), QueryNew("Update"), QueryNew("Delete")}

LineCreate ==
      <<"C","R","E","A","T","E"," ","T","A","B","L","E"," ","c","u","s","t",
        "o","m","e","r","s"," ","[","N","a","m","e",":"," ","T","E","X","T",
        ","," ","I","D",":"," ","N","U","M","B","E","R","]","\n">>

LineCreateOrders ==
      <<"c","r","e","a","t","e"," ","t","a","b","l","e"," ","o","r","d","e",
        "r","s"," ","[","I","D",":"," ","N","U","M","B","E","R","]">>

LinePut ==
      <<"P","U","T"," ","[","\"","j","a","m","e","s","\"",","," ","1","]"," ",
        "I","N"," ","c","u","s","t","o","m","e","r","s","\n">>

LinePutFloat ==
      <<"p","u","t"," ","[","n","o","n","e",","," ","1",".","5","]"," ","i",
        "n"," ","c","u","s","t","o","m","e","r","s">>

LinePutShort ==
      <<"P","U","T"," ","[","1","]"," ","I","N"," ","c","u","s","t","o","m",
        "e","r","s">>

LinePutMismatch ==
      <<"P","U","T"," ","[","1",","," ","1","]"," ","I","N"," ","c","u","s",
        "t","o","m","e","r","s">>

LinePutOrders ==
      <<"P","U","T"," ","[","1","]"," ","I","N"," ","o","r","d","e","r","s">>

LineGet ==
      <<"G","E","T"," ","*"," ","F","R","O","M"," ","c","u","s","t","o","m",
        "e","r","s","\n">>

LineGetWhere ==
      <<"G","E","T"," ","*"," ","F","R","O","M"," ","c","u","s","t","o","m",
        "e","r","s"," ","W","H","E","R","E"," ","I","D"," ","="," ","1">>

LineGetWhereLe ==
      <<"G","E","T"," ","*"," ","F","R","O","M"," ","c","u","s","t","o","m",
        "e","r","s"," ","W","H","E","R","E"," ","I","D"," ","<","="," ","1">>

LineGetOrders ==
      <<"G","E","T"," ","*"," ","F","R","O","M"," ","o","r","d","e","r","s">>

LineUpdate ==
      <<"U","P","D","A","T","E"," ","c","u","s","t","o","m","e","r","s">>

LineUnterminated ==
      <<"P","U","T"," ","[","\"","j","a","m","e","s">>

Lines ==
    {LineCreate, LineCreateOrders, LinePut, LinePutFloat, LinePutShort,
     LinePutMismatch, LinePutOrders, LineGet, LineGetWhere, LineGetWhereLe,
     LineGetOrders, LineUpdate, LineUnterminated}

\* the number of values stored in the database
RECURSIVE SumLen(_)
SumLen(seqs) == IF seqs = <<>> THEN 0 ELSE Len(Head(seqs).rows) + SumLen(Tail(seqs))

RECURSIVE TotalCells(_)
TotalCells(tbls) ==
    IF tbls = <<>> THEN 0 ELSE SumLen(Head(tbls).columns) + TotalCells(Tail(tbls))

WithinBounds(tbls) == TotalCells(tbls) <= MaxCells

\* Lexer::lex and Parser::parse on each line
LexedLine == [text \in Lines |-> lex(text)]

ParsedLine == [text \in Lines |-> parse(LexedLine[text].tokens)]

NoCall == [op |-> "none", panic |-> FALSE]

Running == ~last.panic

Init ==
    /\ tables = <<>>
    /\ last = NoCall
    /\ src = <<>>
    /\ lexed = <<>>

\* database.new_table(name, columns)
NewTable(name, columns) ==
    LET r == new_table(tables, name, columns)
    IN  /\ Running
        /\ WithinBounds(r.tables)
        /\ tables' = r.tables
        /\ last' = [op |-> "new_table", result |-> r.result, panic |-> FALSE]
        /\ UNCHANGED <<src, lexed>>

\* table.new_row(values) on the table at index t
NewRow(t, values) ==
    LET r == new_row(tables[t], values)
        after == [tables EXCEPT ![t] = r.table]
    IN  /\ Running
        /\ WithinBounds(after)
        /\ tables' = after
        /\ last' = [op |-> "new_row", table |-> t, result |-> r.result, panic |-> FALSE]
        /\ UNCHANGED <<src, lexed>>

\* table.get_rows(condition) on the table at index t
GetRows(t, condition) ==
    LET r == get_rows(tables[t], condition)
    IN  /\ Running
        /\ last' = [op |-> "get_rows", table |-> t, condition |-> condition,
                    rows |-> r.rows, panic |-> r.status = "panic"]
        /\ UNCHANGED <<tables, src, lexed>>

\* database.run_query(query)
RunQuery(query) ==
    LET r == run_query(tables, query)
    IN  /\ Running
        /\ WithinBounds(r.tables)
        /\ tables' = r.tables
        /\ last' = [op |-> "run_query", operation |-> query.operation,
                    result |-> r.result, panic |-> r.status = "panic"]
        /\ UNCHANGED <<src, lexed>>

\* the body of the loop of run on the line text: lex, parse, run_query, then
\* result.unwrap().print()
RunLine(text) ==
    LET tokens == LexedLine[text]
        query  == ParsedLine[text]
        r      == run_query(tables, query.query)
        stage  == IF tokens.status = "panic" THEN "lex"
                  ELSE IF query.status = "panic" THEN "parse"
                  ELSE "run_query"
        after  == IF stage = "run_query" THEN r.tables ELSE tables
    IN  /\ Running
        /\ WithinBounds(after)
        /\ tables' = after
        /\ src' = text
        /\ lexed' = <<tokens>>
        /\ last' = [op |-> "line", stage |-> stage,
                    ran |-> IF stage = "run_query" THEN r.status ELSE "panic",
                    result |-> IF stage = "run_query" THEN r.result ELSE <<>>,
                    panic |-> stage # "run_query" \/ r.status # "Some"]

\* the table store under direct calls
StoreNext ==
    \/ \E name \in TableNames, columns \in Layouts : NewTable(name, columns)
    \/ \E t \in DOMAIN tables, values \in ValueLists : NewRow(t, values)
    \/ \E t \in DOMAIN tables, condition \in OptionalConditions : GetRows(t, condition)

StoreSpec == Init /\ [][StoreNext]_vars

\* the database under queries
Next ==
    \/ \E name \in TableNames, columns \in Layouts : NewTable(name, columns)
    \/ \E query \in Queries : RunQuery(query)
    \/ \E text \in Lines : RunLine(text)

Spec == Init /\ [][Next]_vars

(***************************************************************************)
(* The lexer on its own: Lexer::lex applied to a text.                     *)
(***************************************************************************)
LexAlphabet == {"<", ">", "=", "!", " ", "\"", "1", "0", "-", "e", "x", ".", "@", "T"}

Texts(n) == UNION {[1..k -> LexAlphabet] : k \in 0..n}

\* the query of the lexing example, in the casing the example gives
GetQuery ==
    <<"G","E","T"," ","*"," ","F","R","O","M"," ",
      "c","u","s","t","o","m","e","r","s"," ",
      "W","H","E","R","E"," ","I","D"," ","="," ","1">>

KeywordPositions == {1, 2, 3} \cup {7, 8, 9, 10} \cup {22, 23, 24, 25, 26}

\* GetQuery with the keyword letters at the positions of lower in lower case
Cased(lower) ==
    [i \in DOMAIN GetQuery |->
        IF i \in lower THEN to_lowercase_char(GetQuery[i]) ELSE GetQuery[i]]

\* what may follow the query on its line
LineEnds == {<<>>, <<" ">>, <<"\r", "\n">>}

CasedQueries == {Cased(lower) \o end : lower \in SUBSET KeywordPositions, end \in LineEnds}

LexInit ==
    /\ src \in Texts(MaxLen) \cup CasedQueries
    /\ lexed = <<>>
    /\ tables = <<>>
    /\ last = NoCall

\* let tokens = Lexer::lex(&mut lexer, input)  (lib.rs, run)
Lex ==
    /\ lexed = <<>>
    /\ lexed' = <<lex(src)>>
    /\ UNCHANGED <<tables, last, src>>

LexNext == Lex

LexSpec == LexInit /\ [][LexNext]_vars

(***************************************************************************)
(* The parser on its own: Parser::parse on the tokens of a line, or on a   *)
(* token vector handed to it directly.                                     *)
(***************************************************************************)

\* the longest run of arbitrary tokens handed to the parser
MaxTokens == 3

\* the most operators in the enumerated expressions
MaxOperators == 2

\* the expression of the precedence example as the condition of a GET
LineWhereArithmetic ==
      <<"G","E","T"," ","*"," ","F","R","O","M"," ","c","u","s","t","o","m",
        "e","r","s"," ","W","H","E","R","E"," ","1"," ","+"," ","2"," ","*"," ","3">>

ParseLines == Lines \cup {LineWhereArithmetic}

\* the tokens arbitrary vectors are made of
TokenAlphabet ==
    {Token("Get"), Token("Put"), Token("Star"), Token("From"), Token("Where"),
     Token("In"), Token("LeftBracket"), Token("RightBracket"), Token("Comma"),
     TokenIdentifier(Customers), TokenInteger(1)}

TokenVectors == UNION {[1..k -> TokenAlphabet] : k \in 0..MaxTokens}

\* the operators of the boolean and comparison levels
ConditionOperators ==
    {"Or", "And", "Equal", "NotEqual",
     "LessThan", "LessThanOrEqual", "GreaterThan", "GreaterThanOrEqual"}

Operands == {TokenIdentifier(IdColumn), TokenInteger(1)}

\* operand (operator operand)^k
Alternations(k) ==
    {g \in [1..(2 * k + 1) -> Operands \cup {Token(type) : type \in ConditionOperators}] :
        \A i \in DOMAIN g : (i % 2 = 1) <=> (g[i] \in Operands)}

\* A = 1 OR B = 2 AND C = 3
PrecedenceExample ==
    <<TokenIdentifier(<<"A">>), Token("Equal"), TokenInteger(1), Token("Or"),
      TokenIdentifier(<<"B">>), Token("Equal"), TokenInteger(2), Token("And"),
      TokenIdentifier(<<"C">>), Token("Equal"), TokenInteger(3)>>

\* x AND y AND z
AssociativityExample ==
    <<TokenIdentifier(<<"x">>), Token("And"), TokenIdentifier(<<"y">>), Token("And"),
      TokenIdentifier(<<"z">>)>>

ExpressionVectors ==
    UNION {Alternations(k) : k \in 0..MaxOperators}
    \cup {PrecedenceExample, AssociativityExample}

GetWhere == <<Token("Get"), Token("Star"), Token("From"), TokenIdentifier(Customers),
              Token("Where")>>

PutHead == <<Token("Put"), Token("LeftBracket")>>

PutTail == <<Token("RightBracket"), Token("In"), TokenIdentifier(Customers)>>

CreateHead == <<Token("Create"), Token("Table"), TokenIdentifier(Customers),
                Token("LeftBracket")>>

ColumnDeclaration == <<TokenIdentifier(IdColumn), Token("Colon"), Token("NumberType")>>

\* statements, whole and broken, of the three kinds the grammar fixes
StatementVectors ==
    { SubSeq(GetWhere, 1, 4),
      GetWhere,
      GetWhere \o <<TokenInteger(1), Token("Equal")>>,
      SubSeq(GetWhere, 1, 4) \o <<TokenInteger(1)>>,
      GetWhere \o <<TokenInteger(1), TokenInteger(1)>>,
      PutHead \o PutTail,
      PutHead \o <<TokenInteger(1), Token("Comma"), TokenString(James)>> \o PutTail,
      PutHead \o <<TokenInteger(1), TokenString(James)>> \o PutTail,
      PutHead \o <<TokenInteger(1)>> \o SubSeq(PutTail, 2, 3),
      PutHead \o <<TokenInteger(1)>> \o SubSeq(PutTail, 1, 2) \o <<TokenInteger(1)>>,
      PutHead \o <<TokenInteger(1)>> \o PutTail \o <<Token("Comma")>>,
      CreateHead \o ColumnDeclaration \o <<Token("RightBracket")>>,
      CreateHead \o ColumnDeclaration,
      CreateHead \o SubSeq(ColumnDeclaration, 1, 2) \o <<Token("RightBracket")>>,
      <<Token("Create"), Token("Database"), TokenIdentifier(Customers)>>,
      <<Token("Update"), TokenIdentifier(Customers)>>,
      <<Token("Delete"), Token("Table"), TokenIdentifier(Customers)>> }

ParserInputs ==
    TokenVectors \cup StatementVectors \cup {GetWhere \o e : e \in ExpressionVectors}

\* a line to be lexed, or a token vector in hand
ParseInit ==
    /\ \/ src \in ParseLines /\ lexed = <<>>
       \/ src = <<>> /\ lexed \in {<<LexOk(tokens)>> : tokens \in ParserInputs}
    /\ tables = <<>>
    /\ last = NoCall

\* let query = Parser::parse(&mut parser, tokens)  (lib.rs, run)
Parse ==
    /\ lexed # <<>>
    /\ lexed[1].status = "ok"
    /\ last = NoCall
    /\ LET parsed == parse(lexed[1].tokens)
       IN  last' = [op |-> "parse", status |-> parsed.status, query |-> parsed.query,
                    panic |-> parsed.status = "panic"]
    /\ UNCHANGED <<tables, src, lexed>>

ParseNext == Lex \/ Parse

ParseSpec == ParseInit /\ [][ParseNext]_vars

(***************************************************************************)
(* Properties.                                                             *)
(***************************************************************************)

\* some value of the list is neither None nor of the kind of its column
Mismatched(table, values) ==
    \E i \in DOMAIN values :
        ~check_field_value_type(table.columns[i].field_type, values[i])

\* C1: a new_row whose values match the column count but not the column types
\* fails with MismatchedTypes and leaves every column as it was.
C1_MismatchIsAtomic ==
    [][\A t \in DOMAIN tables, values \in ValueLists :
        ( /\ Len(values) = Len(tables[t].columns)
          /\ Mismatched(tables[t], values)
          /\ NewRow(t, values) )
        => (last'.result = <<"MismatchedTypes">> /\ tables' = tables)]_vars

\* C2: all columns of a table have the same length.
C2_ColumnsSameLength ==
    \A t \in DOMAIN tables :
        \A i, j \in DOMAIN tables[t].columns :
            Len(tables[t].columns[i].rows) = Len(tables[t].columns[j].rows)

\* C3: a new_row with fewer values than columns returns NotEnoughValues, with
\* more returns TooManyValues, and in both cases no column is modified.
\* (The conjuncts on last' follow from NewRow; stated first, they dismiss the
\* steps of the other calls without evaluating new_row.)
C3_ArityErrors ==
    [][\A t \in DOMAIN tables, values \in ValueLists :
        ( /\ last'.op = "new_row" /\ last'.table = t
          /\ Len(values) # Len(tables[t].columns)
          /\ NewRow(t, values) )
        => /\ tables' = tables
           /\ last'.result = IF Len(values) < Len(tables[t].columns)
                             THEN <<"NotEnoughValues">> ELSE <<"TooManyValues">>]_vars

\* a table that holds rows has just refused a list that was too short
C3_Witness ==
    /\ last.op = "new_row"
    /\ last.result = <<"NotEnoughValues">>
    /\ \E i \in DOMAIN tables[last.table].columns :
            tables[last.table].columns[i].rows # <<>>

\* The meaning of a condition on a row: And and Or combine their operands,
\* a comparison compares the values of its two leaves.
LeafValue(row, leaf) ==
    IF leaf.expression_type.type = "Identifier" THEN row[leaf.expression_type.text]
    ELSE from_expression_type(leaf.expression_type)

Numeric(v) == v.kind \in {"Integer", "Float"}

RECURSIVE Meaningful(_, _)
\* the condition has a meaning on the row: its identifiers are fields and its
\* order comparisons are between values of one kind
Meaningful(row, e) ==
    LET type == e.expression_type.type
        l == e.l_operand[1]
        r == e.r_operand[1]
        leaf(x) == /\ x.l_operand = <<>> /\ x.r_operand = <<>>
                   /\ x.expression_type.type = "Identifier"
                        => x.expression_type.text \in DOMAIN row
    IN  /\ e.l_operand # <<>> /\ e.r_operand # <<>>
        /\ CASE type \in {"And", "Or"} -> Meaningful(row, l) /\ Meaningful(row, r)
             [] type \in {"Equal", "NotEqual"} -> leaf(l) /\ leaf(r)
             [] OTHER -> /\ leaf(l) /\ leaf(r)
                         /\ \/ LeafValue(row, l).kind = LeafValue(row, r).kind
                            \/ Numeric(LeafValue(row, l)) /\ Numeric(LeafValue(row, r))

RECURSIVE Satisfies(_, _)
Satisfies(row, e) ==
    LET type == e.expression_type.type
        l == e.l_operand[1]
        r == e.r_operand[1]
        cmp == FieldValueCmp(LeafValue(row, l), LeafValue(row, r))
    IN  CASE type = "And" -> Satisfies(row, l) /\ Satisfies(row, r)
          [] type = "Or" -> Satisfies(row, l) \/ Satisfies(row, r)
          [] type = "Equal" -> LeafValue(row, l) = LeafValue(row, r)
          [] type = "NotEqual" -> LeafValue(row, l) # LeafValue(row, r)
          [] type = "LessThan" -> cmp < 0
          [] type = "LessThanOrEqual" -> cmp <= 0
          [] type = "GreaterThan" -> cmp > 0
          [] type = "GreaterThanOrEqual" -> cmp >= 0

\* the rows of a table whose columns are equally long, in storage order
StoredRows(table) ==
    [i \in 1..Len(table.columns[1].rows) |->
        [n \in {table.columns[j].name : j \in DOMAIN table.columns} |->
            LET j == CHOOSE j \in DOMAIN table.columns :
                        /\ table.columns[j].name = n
                        /\ \A k \in DOMAIN table.columns :
                                table.columns[k].name = n => k <= j
            IN  table.columns[j].rows[i]]]

WellFormed(table) ==
    /\ table.columns # <<>>
    /\ \A i, j \in DOMAIN table.columns :
            Len(table.columns[i].rows) = Len(table.columns[j].rows)

\* C4: on a table with columns of one length, get_rows returns all stored rows
\* in storage order when no condition is given, and otherwise exactly the rows
\* that satisfy the condition, in storage order.
C4_GetRowsSelects ==
    LET table == tables[last.table]
        rows == StoredRows(table)
        satisfies(row) == Satisfies(row, last.condition[1])
    IN  ( /\ last.op = "get_rows"
          /\ WellFormed(table)
          /\ last.condition # <<>> =>
                \A i \in DOMAIN rows : Meaningful(rows[i], last.condition[1]) )
        => /\ ~last.panic
           /\ last.rows = <<IF last.condition = <<>> THEN rows
                            ELSE SelectSeq(rows, satisfies)>>

\* C5: creating a table whose name exists fails with TableAlreadyExists and
\* leaves the tables as they were, through new_table and through run_query.
C5_DuplicateTable ==
    [][ /\ \A name \in TableNames, columns \in Layouts :
            (get_table(tables, name) # <<>> /\ NewTable(name, columns))
            => (last'.result = "TableAlreadyExists" /\ tables' = tables)
        /\ \A query \in Queries :
            ( /\ query.operation = "Create"
              /\ query.table # <<>> /\ query.columns # <<>>
              /\ get_table(tables, query.table[1]) # <<>>
              /\ RunQuery(query) )
            => (~last'.panic /\ tables' = tables) ]_vars

CustomersColumns == <<ColumnNew(NameColumn, "Text"), ColumnNew(IdColumn, "Number")>>

\* C6: CREATE TABLE customers [Name: TEXT, ID: NUMBER], then PUT ["james", 1]
\* IN customers any number of times, then GET * FROM customers, each through
\* lex, parse and run_query: the CREATE returns a result and registers the
\* empty table, each PUT returns a result and appends its row, and the GET
\* returns the rows put, in order, each with Name "james" and ID 1.
C6_CreatePutGet ==
    [][LET found == get_table(tables, Customers)
           table == tables[found[1]]
           ready == /\ found # <<>>
                    /\ [i \in DOMAIN table.columns |->
                            ColumnNew(table.columns[i].name, table.columns[i].field_type)]
                       = CustomersColumns
                    /\ WellFormed(table)
           row == [n \in {NameColumn, IdColumn} |->
                    IF n = NameColumn THEN FieldValueText(James) ELSE FieldValueInteger(1)]
       IN  /\ (found = <<>> /\ RunLine(LineCreate))
                => /\ last'.ran = "Some"
                   /\ tables' = Append(tables, TableNew(Customers, CustomersColumns))
           /\ (ready /\ RunLine(LinePut))
                => /\ last'.ran = "Some"
                   /\ StoredRows(tables'[found[1]]) = Append(StoredRows(table), row)
           /\ (ready /\ RunLine(LineGet))
                => /\ last'.ran = "Some"
                   /\ last'.result[1].rows = <<StoredRows(table)>> ]_vars

\* how run_query reports the outcome of a query to its caller; its
\* Option<QueryResult> has no value that carries an error
ReportedAs(call) ==
    IF call.panic THEN "crash"
    ELSE IF call.result = <<>> THEN "absence"
    ELSE "success"

\* C7: a Get or Put that names a table that does not exist, and a Put whose
\* insertion fails, is reported by run_query as an error, not as success, as
\* an absence or as a crash.
C7_FailuresAreErrors ==
    [][\A query \in Queries :
        LET found == get_table(tables, query.table[1])
            table == tables[found[1]]
        IN  ( /\ query.operation \in {"Get", "Put"}
              /\ query.table # <<>>
              /\ RunQuery(query)
              /\ \/ found = <<>>
                 \/ /\ query.operation = "Put"
                    /\ query.values # <<>>
                    /\ \/ Len(query.values[1]) # Len(table.columns)
                       \/ Mismatched(table, query.values[1]) )
            => ReportedAs(last') = "error"]_vars

\* the tokens of a text of operator characters and blanks, with each of <=, >=
\* and != one token
RECURSIVE OperatorTokens(_)
OperatorTokens(text) ==
    IF text = <<>> THEN <<>>
    ELSE LET two == Len(text) >= 2 /\ text[2] = "="
         IN  CASE text[1] = " " -> OperatorTokens(Tail(text))
               [] text[1] = "=" -> <<Token("Equal")>> \o OperatorTokens(Tail(text))
               [] text[1] = "<" /\ two ->
                    <<Token("LessThanOrEqual")>> \o OperatorTokens(Tail_(text, 3))
               [] text[1] = ">" /\ two ->
                    <<Token("GreaterThanOrEqual")>> \o OperatorTokens(Tail_(text, 3))
               [] text[1] = "!" /\ two ->
                    <<Token("NotEqual")>> \o OperatorTokens(Tail_(text, 3))
               [] text[1] = "<" /\ ~two ->
                    <<Token("LessThan")>> \o OperatorTokens(Tail(text))
               [] text[1] = ">" /\ ~two ->
                    <<Token("GreaterThan")>> \o OperatorTokens(Tail(text))

\* C8: in a text of <, >, =, != and blanks, each of <=, >= and != is lexed as
\* one token and its '=' gives no further Equal token; < and > not followed
\* by '=' give LessThan and GreaterThan.
C8_TwoCharacterOperators ==
    ( /\ lexed # <<>>
      /\ AllIn(src, {"<", ">", "=", "!", " "})
      /\ \A i \in DOMAIN src : src[i] = "!" => (i < Len(src) /\ src[i + 1] = "=") )
    => lexed[1] = LexOk(OperatorTokens(src))

\* C9: lex returns tokens or a lexical error for every text; it never panics.
C9_LexNeverPanics ==
    lexed # <<>> => lexed[1].status # "panic"

GetQueryTokens ==
    <<Token("Get"), Token("Star"), Token("From"),
      TokenIdentifier(SubSeq(GetQuery, 12, 20)), Token("Where"),
      TokenIdentifier(SubSeq(GetQuery, 28, 29)), Token("Equal"), TokenInteger(1)>>

\* C10: GET * FROM customers WHERE ID = 1, in any casing of GET, FROM and WHERE
\* and whatever blanks end the line, lexes to Get, Star, From,
\* Identifier(customers), Where, Identifier(ID), Equal, Integer(1).
C10_KeywordsAnyCase ==
    (lexed # <<>> /\ src \in CasedQueries) => lexed[1] = LexOk(GetQueryTokens)

\* a casing other than the upper-case one has been lexed
C10_Witness ==
    /\ lexed # <<>>
    /\ src \in CasedQueries
    /\ SubSeq(src, 1, 3) = <<"g", "E", "t">>
    /\ SubSeq(src, 22, 26) = <<"w", "h", "e", "r", "e">>

\* Add(Integer(1), Multiply(Integer(2), Integer(3)))
AddOfProduct ==
    Binary("Add", Literal(TokenInteger(1)),
                  Binary("Multiply", Literal(TokenInteger(2)), Literal(TokenInteger(3))))

\* C11: lexing and parsing GET * FROM customers WHERE 1 + 2 * 3 gives a query
\* whose condition is Add(Integer(1), Multiply(Integer(2), Integer(3))).
C11_MultiplicationBindsTighter ==
    (last.op = "parse" /\ src = LineWhereArithmetic)
    => /\ last.status = "ok"
       /\ last.query.condition = <<AddOfProduct>>

\* The statement grammar for Get, Put and Create, on token vectors.  No token
\* stands for a parenthesis or a unary operator, so an expression is operands
\* joined by binary operators.
IsLiteralToken(token) == token.type \in {"Integer", "Float", "String", "None"}

IsOperandToken(token) == IsLiteralToken(token) \/ token.type = "Identifier"

IsOperatorToken(token) == token.type \in ConditionOperators \cup {"Xor", "Star"}

IsExpr(tokens) ==
    /\ Len(tokens) % 2 = 1
    /\ \A i \in DOMAIN tokens :
            IF i % 2 = 1 THEN IsOperandToken(tokens[i]) ELSE IsOperatorToken(tokens[i])

IsLiteralList(tokens) ==
    \/ tokens = <<>>
    \/ /\ Len(tokens) % 2 = 1
       /\ \A i \in DOMAIN tokens :
            IF i % 2 = 1 THEN IsLiteralToken(tokens[i]) ELSE tokens[i] = Token("Comma")

IsColumnList(tokens) ==
    \/ tokens = <<>>
    \/ /\ Len(tokens) % 4 = 3
       /\ \A i \in DOMAIN tokens :
            CASE i % 4 = 1 -> tokens[i].type = "Identifier"
              [] i % 4 = 2 -> tokens[i] = Token("Colon")
              [] i % 4 = 3 -> tokens[i].type \in {"NumberType", "TextType"}
              [] OTHER -> tokens[i] = Token("Comma")

IsGet(tokens) ==
    /\ Len(tokens) >= 4
    /\ SubSeq(tokens, 1, 3) = SubSeq(GetWhere, 1, 3)
    /\ tokens[4].type = "Identifier"
    /\ \/ Len(tokens) = 4
       \/ tokens[5] = Token("Where") /\ IsExpr(SubSeq(tokens, 6, Len(tokens)))

IsPut(tokens) ==
    /\ Len(tokens) >= 5
    /\ SubSeq(tokens, 1, 2) = PutHead
    /\ SubSeq(tokens, Len(tokens) - 2, Len(tokens) - 1) = SubSeq(PutTail, 1, 2)
    /\ tokens[Len(tokens)].type = "Identifier"
    /\ IsLiteralList(SubSeq(tokens, 3, Len(tokens) - 3))

IsCreate(tokens) ==
    /\ Len(tokens) >= 3
    /\ tokens[1] = Token("Create")
    /\ tokens[3].type = "Identifier"
    /\ \/ Len(tokens) = 3 /\ tokens[2] = Token("Database")
       \/ /\ Len(tokens) >= 5
          /\ tokens[2] = Token("Table")
          /\ tokens[4] = Token("LeftBracket")
          /\ tokens[Len(tokens)] = Token("RightBracket")
          /\ IsColumnList(SubSeq(tokens, 5, Len(tokens) - 1))

Grammatical(tokens) == IsGet(tokens) \/ IsPut(tokens) \/ IsCreate(tokens)

\* what Parser::parse hands its caller; its return type, Query, has no value
\* that carries an error
ParseReportedAs(call) == IF call.panic THEN "crash" ELSE "query"

\* C12: a token vector that is not a statement of the grammar (Update and
\* Delete, whose grammar is left open, aside) makes Parser::parse report a
\* parse error: it neither crashes nor returns a Query.
C12_ViolationsAreParseErrors ==
    ( /\ last.op = "parse"
      /\ lexed[1].tokens # <<>>
      /\ lexed[1].tokens[1].type \notin {"Update", "Delete"}
      /\ ~Grammatical(lexed[1].tokens) )
    => ParseReportedAs(last) = "error"

IsLogical(e) == e.expression_type.type \in {"And", "Or"}

\* C13: on a table with columns of one length, get_rows with a condition
\* built from And and Or over comparisons, such as (ID = 1 OR Name = "james")
\* AND ID != 3, returns exactly the rows on which the combination of the
\* comparisons is true.
C13_NestedConditions ==
    LET table == tables[last.table]
        rows == StoredRows(table)
        satisfies(row) == Satisfies(row, last.condition[1])
    IN  ( /\ last.op = "get_rows"
          /\ last.condition # <<>>
          /\ IsLogical(last.condition[1])
          /\ WellFormed(table)
          /\ \A i \in DOMAIN rows : Meaningful(rows[i], last.condition[1]) )
        => /\ ~last.panic
           /\ last.rows = <<SelectSeq(rows, satisfies)>>

IsOrdering(e) ==
    e.expression_type.type \in
        {"LessThan", "LessThanOrEqual", "GreaterThan", "GreaterThanOrEqual"}

\* a comparison of two leaves whose identifiers are fields of the table
IsLeafComparison(table, e) ==
    /\ e.l_operand # <<>> /\ e.r_operand # <<>>
    /\ \A x \in {e.l_operand[1], e.r_operand[1]} :
        /\ x.l_operand = <<>> /\ x.r_operand = <<>>
        /\ x.expression_type.type \in {"None", "Integer", "Float", "String", "Identifier"}
        /\ x.expression_type.type = "Identifier"
            => \E j \in DOMAIN table.columns : table.columns[j].name = x.expression_type.text

\* values of kinds that have no order between them
Incompatible(a, b) == a.kind # b.kind /\ ~(Numeric(a) /\ Numeric(b))

\* what get_rows hands its caller; its Option<Vec<Row>> has no value that
\* carries an error
GetRowsReportedAs(call) == IF call.panic THEN "crash" ELSE "rows"

\* C14: get_rows with an ordering comparison whose operands, on some stored
\* row, are of incompatible kinds (Text and Integer, None and Integer) reports
\* an evaluation error; it does not return rows.
C14_CrossKindOrdering ==
    LET table == tables[last.table]
        rows == StoredRows(table)
        e == last.condition[1]
    IN  ( /\ last.op = "get_rows"
          /\ last.condition # <<>>
          /\ IsOrdering(e)
          /\ WellFormed(table)
          /\ IsLeafComparison(table, e)
          /\ \E i \in DOMAIN rows :
                Incompatible(LeafValue(rows[i], e.l_operand[1]),
                             LeafValue(rows[i], e.r_operand[1])) )
        => GetRowsReportedAs(last) = "error"

\* the literal leaves of a condition, and the FieldValue of the same kind and
\* payload for each
LiteralLeaves ==
    {Token("None"), TokenString(James), TokenInteger(1), TokenFloat(15, -1)}

SameKindValue(token) ==
    [kind |-> IF token.type = "String" THEN "Text" ELSE token.type,
     text |-> token.text, num |-> token.num, exp |-> token.exp]

\* an operand of the comparison is an Identifier that is no column of the table
NamesMissingField(table, e) ==
    /\ e.l_operand # <<>> /\ e.r_operand # <<>>
    /\ \E x \in {e.l_operand[1], e.r_operand[1]} :
        /\ x.expression_type.type = "Identifier"
        /\ \A j \in DOMAIN table.columns : table.columns[j].name # x.expression_type.text

\* C15: get_rows on a table that holds rows, with a comparison one of whose
\* operands is an Identifier that is not a column, reports an evaluation error
\* and does not panic; and from_expression_type turns every literal leaf into
\* the FieldValue of the same kind and payload.
C15_UnknownIdentifier ==
    LET table == tables[last.table]
    IN  /\ ( /\ last.op = "get_rows"
             /\ last.condition # <<>>
             /\ WellFormed(table)
             /\ table.columns[1].rows # <<>>
             /\ NamesMissingField(table, last.condition[1]) )
            => GetRowsReportedAs(last) = "error"
        /\ \A token \in LiteralLeaves : from_expression_type(token) = SameKindValue(token)

\* how tightly an operator of the boolean and comparison levels binds
Binding(type) ==
    CASE type = "Or" -> 1
      [] type = "And" -> 2
      [] type \in {"Equal", "NotEqual"} -> 3
      [] OTHER -> 4

RECURSIVE Tree(_)
\* The tree of operand (operator operand)*: the root is the last of the
\* operators that bind loosest, over the trees of what stands left and right
\* of it.
Tree(e) ==
    IF Len(e) = 1 THEN Literal(e[1])
    ELSE LET operators == {i \in DOMAIN e : i % 2 = 0}
             loosest == CHOOSE b \in 1..4 :
                            /\ \E i \in operators : Binding(e[i].type) = b
                            /\ \A i \in operators : Binding(e[i].type) >= b
             root == CHOOSE i \in operators :
                            /\ Binding(e[i].type) = loosest
                            /\ \A j \in operators : Binding(e[j].type) = loosest => j <= i
         IN  Binary(e[root].type, Tree(SubSeq(e, 1, root - 1)),
                                  Tree(SubSeq(e, root + 1, Len(e))))

RECURSIVE Complete(_)
\* every node is a leaf or owns a left and a right operand
Complete(e) ==
    \/ e.l_operand = <<>> /\ e.r_operand = <<>>
    \/ /\ e.l_operand # <<>> /\ e.r_operand # <<>>
       /\ Complete(e.l_operand[1]) /\ Complete(e.r_operand[1])

EqualTo(name, n) == Binary("Equal", Identifier(name), Literal(TokenInteger(n)))

\* C16: for GET * FROM customers WHERE e, with e identifiers and literals
\* joined by OR, AND, =, !=, <, <=, >, >=, the condition parsed is the tree
\* given by the precedence Or < And < Equality < Comparison with each level
\* folding to the left, every binary node with both operands; A = 1 OR B = 2
\* AND C = 3 gives Or(Equal(A,1), And(Equal(B,2), Equal(C,3))) and x AND y AND
\* z gives And(And(x,y),z).
C16_PrecedenceAndAssociativity ==
    LET tokens == lexed[1].tokens
        e == SubSeq(tokens, 6, Len(tokens))
        condition == last.query.condition
    IN  ( /\ last.op = "parse"
          /\ Len(tokens) > 5
          /\ SubSeq(tokens, 1, 5) = GetWhere
          /\ e \in ExpressionVectors )
        => /\ last.status = "ok"
           /\ condition = <<Tree(e)>>
           /\ Complete(condition[1])
           /\ e = PrecedenceExample =>
                condition[1] = Binary("Or", EqualTo(<<"A">>, 1),
                                      Binary("And", EqualTo(<<"B">>, 2), EqualTo(<<"C">>, 3)))
           /\ e = AssociativityExample =>
                condition[1] = Binary("And", Binary("And", Identifier(<<"x">>),
                                                           Identifier(<<"y">>)),
                                      Identifier(<<"z">>))

\* A = 1 OR B = 2 AND C = 3 has been parsed as the condition of a GET
C16_Witness ==
    /\ last.op = "parse"
    /\ lexed[1].tokens = GetWhere \o PrecedenceExample
    /\ last.query.condition # <<>>
    /\ last.query.condition[1].expression_type = Token("Or")

\* the value may stand in a column of the type
FitsColumn(field_type, value) ==
    \/ value.kind = "None"
    \/ field_type = "Text" /\ value.kind = "Text"
    \/ field_type = "Number" /\ value.kind \in {"Integer", "Float"}

\* C17: every value stored in a column is None, or Text in a Text column, or
\* Integer or Float in a Number column.
C17_StoredValuesFitColumn ==
    \A t \in DOMAIN tables :
        \A i \in DOMAIN tables[t].columns :
            \A k \in DOMAIN tables[t].columns[i].rows :
                FitsColumn(tables[t].columns[i].field_type, tables[t].columns[i].rows[k])

\* PUT [1, 1] IN customers has run on [Name: TEXT, ID: NUMBER]: the Integer was
\* kept out of Name and stored in ID
C17_Witness ==
    /\ last.op = "line"
    /\ src = LinePutMismatch
    /\ last.ran = "Some"
    /\ \E t \in DOMAIN tables :
        /\ tables[t].name = Customers
        /\ Len(tables[t].columns) = 2
        /\ tables[t].columns[1].field_type = "Text"
        /\ Len(tables[t].columns[1].rows) < Len(tables[t].columns[2].rows)

=============================================================================
